---- MODULE Spec2Model ----
(***************************************************************************)
(* Model of schedule_manager.py: the Notification record, the delivery     *)
(* function send_notification and the Scheduler with its two lists.        *)
(*                                                                         *)
(* Notification objects live in a heap (objs) and the Scheduler's lists    *)
(* hold references to them, as Python lists do: two list entries may be    *)
(* the same object.  Scheduler.run_pending is modelled statement by        *)
(* statement (entry, one loop iteration per step, return) so that the      *)
(* wall clock can advance while a scan is in progress; Scheduler.schedule  *)
(* and the Notification constructor are single steps.  The program is      *)
(* single-threaded: no Scheduler method starts while a scan is running.    *)
(*                                                                         *)
(* Instants (datetime values) are modelled as naturals; the clock only     *)
(* moves forward.                                                          *)
(*                                                                         *)
(* Spec is the Scheduler with its callers; SpecLive is Spec with a driver  *)
(* that keeps calling run_pending.  The methods of Notification are        *)
(* examined on their own: SpecCtor (the constructor), SpecParse            *)
(* (parse_datetime on text) and SpecDict (to_dict).                        *)
(***************************************************************************)
EXTENDS Integers, Sequences, FiniteSets, TLC

\* ---- bounds --------------------------------------------------------------
MaxObjs == 2        \* Notification objects constructed in one run
MaxTime == 1        \* scheduled_time ranges over 0..MaxTime
MaxClock == 1       \* the clock ranges over 0..MaxClock
MaxSchedule == 2    \* successful Scheduler.schedule calls in one run
MaxMsgLen == 32     \* characters in a message given to to_dict

\* ---- Python values -------------------------------------------------------
PyStr(s) == [type |-> "str", val |-> s]
PyNone == [type |-> "NoneType", val |-> ""]

\* bool(v) for the values above: the empty string and None are falsy
Truthy(v) == v.type = "str" /\ v.val # ""
\* isinstance(v, str)
IsStr(v) == v.type = "str"

UserIdInputs == {PyStr("u1"), PyStr("u2"), PyStr("")}
MessageInputs == {PyStr("hello"), PyStr("")}
\* the instant a scheduled_time text denotes; NoParse: a text no format matches
NoParse == -1
TimeInputs == (0..MaxTime) \cup {NoParse}
PriorityInputs == {"Normal", "urgent"}

\* str.lower() on the priority inputs
Lower(p) ==
  CASE p = "Normal" -> "normal"
    [] p = "HIGH" -> "high"
    [] p = "LOW" -> "low"
    [] p = "Low" -> "low"
    [] OTHER -> p

valid_priorities == {"high", "normal", "low"}

VARIABLES
  objs,                \* heap: sequence of the Notification objects constructed
  cerr,                \* outcome of the last Notification(...) call
  notifications,       \* Scheduler.notifications: sequence of references
  sent_notifications,  \* Scheduler.sent_notifications: sequence of references
  clock,               \* datetime.now()
  pc,                  \* "idle", or "scan" inside run_pending's loop
  now,                 \* run_pending local
  snapshot,            \* run_pending local: the copy self.notifications[:]
  idx,                 \* run_pending local: position of the loop in snapshot
  sent_count,          \* run_pending local
  ret,                 \* value the last Scheduler call returned, if a count
  err,                 \* exception raised by the last Scheduler call, or "none"
  calls,               \* every send_notification invocation so far, in order
  last,                \* the last Scheduler method that was called
  arg,                 \* the argument of the last schedule call
  pre,                 \* the Scheduler's state at the entry of the last call
  order,               \* arguments of the successful schedule calls, in order
  fin,                 \* arguments of the last call of a Notification method
  fout                 \* what that call returned or raised

vars == <<objs, cerr, notifications, sent_notifications, clock, pc, now,
          snapshot, idx, sent_count, ret, err, calls, last, arg, pre, order,
          fin, fout>>

schedVars == <<notifications, sent_notifications, pc, now, snapshot, idx,
               sent_count, ret, err, calls, last, arg, pre, order>>

funVars == <<fin, fout>>

NoRet == -1
\* fin and fout before any call
NoCall == [op |-> "none"]
\* arg when the last call took no argument
NoArg == [type |-> "none", ref |-> 0]

\* ---- send_notification (module level) ------------------------------------
\* TRUE iff send_notification(user_id, message) raises ValueError
send_notification_raises(user_id, message) ==
  \/ ~Truthy(user_id) \/ ~IsStr(user_id)
  \/ ~Truthy(message) \/ ~IsStr(message)

\* ---- Notification --------------------------------------------------------
\* parse_datetime: "ValueError" when no format matches, else "ok"
parse_datetime_error(t) == IF t = NoParse THEN "ValueError" ELSE "ok"

validate_priority_error(p) ==
  IF Lower(p) \notin valid_priorities THEN "ValueError" ELSE "ok"

\* variant: the message is not validated
validate_error_nomsg(user_id, message) ==
  IF ~Truthy(user_id) \/ ~IsStr(user_id) THEN "ValueError" ELSE "ok"

validate_error(user_id, message) ==
  IF ~Truthy(user_id) \/ ~IsStr(user_id) THEN "ValueError"
  ELSE IF ~Truthy(message) \/ ~IsStr(message) THEN "ValueError"
  ELSE "ok"

\* the exception Notification.__init__ raises, in the order its statements run
NotificationError(user_id, message, t, p) ==
  IF parse_datetime_error(t) # "ok" THEN parse_datetime_error(t)
  ELSE IF validate_priority_error(p) # "ok" THEN validate_priority_error(p)
  ELSE validate_error(user_id, message)

\* the raise statement that ends Notification.__init__, by its line, or 0
NotificationRaisedAt(user_id, message, t, p) ==
  IF parse_datetime_error(t) # "ok" THEN 77
  ELSE IF validate_priority_error(p) # "ok" THEN 51
  ELSE IF ~Truthy(user_id) \/ ~IsStr(user_id) THEN 85
  ELSE IF ~Truthy(message) \/ ~IsStr(message) THEN 87
  ELSE 0

\* variant: the priority is stored as given
NewNotification_raw(user_id, message, t, p) ==
  [user_id |-> user_id, message |-> message, scheduled_time |-> t,
   status |-> "pending", priority |-> p]

NewNotification(user_id, message, t, p) ==
  [user_id |-> user_id, message |-> message, scheduled_time |-> t,
   status |-> "pending", priority |-> Lower(p)]

\* n = Notification(user_id, message, scheduled_time, priority)
Notification(user_id, message, t, p) ==
  /\ pc = "idle"
  /\ Len(objs) < MaxObjs
  /\ cerr' = NotificationError(user_id, message, t, p)
  /\ objs' = IF cerr' = "ok"
               THEN Append(objs, NewNotification(user_id, message, t, p))
               ELSE objs
  /\ UNCHANGED <<clock, schedVars>>
  /\ UNCHANGED funVars

\* ---- Scheduler -----------------------------------------------------------
SchedInit ==
  /\ objs = <<>>
  /\ cerr = "ok"
  /\ notifications = <<>>
  /\ sent_notifications = <<>>
  /\ clock = 0
  /\ pc = "idle"
  /\ now = 0
  /\ snapshot = <<>>
  /\ idx = 0
  /\ sent_count = 0
  /\ ret = NoRet
  /\ err = "none"
  /\ calls = <<>>
  /\ last = "init"
  /\ arg = NoArg
  /\ pre = [notifications |-> <<>>, sent |-> <<>>, objs |-> <<>>,
            ncalls |-> 0, now |-> 0, last |-> "init", prevnow |-> 0,
            ret |-> NoRet]
  /\ order = <<>>

Init ==
  /\ SchedInit
  /\ fin = NoCall
  /\ fout = NoCall

\* the state a Scheduler call starts from; t is the instant the call reads
\* from the clock (0 for a call that does not read it); last, prevnow and ret
\* describe the preceding call
Entry(t) ==
  [notifications |-> notifications, sent |-> sent_notifications,
   objs |-> objs, ncalls |-> Len(calls), now |-> t, last |-> last,
   prevnow |-> pre.now, ret |-> ret]

\* values a caller may pass to schedule
NotificationArg(r) == [type |-> "Notification", ref |-> r]
OtherArgs == {[type |-> "str", ref |-> 0]}

\* isinstance(a, Notification)
IsNotification(a) == a.type = "Notification"

\* variant: the new entry is inserted at the front of the pending list
schedule_front(a) ==
  /\ pc = "idle"
  /\ IsNotification(a) => Len(order) < MaxSchedule
  /\ pre' = Entry(0)
  /\ last' = "schedule"
  /\ ret' = NoRet
  /\ arg' = a
  /\ IF ~IsNotification(a)
       THEN /\ err' = "TypeError"
            /\ UNCHANGED <<notifications, order>>
       ELSE /\ err' = "none"
            /\ notifications' = <<a.ref>> \o notifications
            /\ order' = Append(order, a.ref)
  /\ UNCHANGED <<objs, cerr, sent_notifications, clock, pc, now, snapshot,
                 idx, sent_count, calls>>
  /\ UNCHANGED funVars

\* variant: the isinstance test comes after the append
schedule_latecheck(a) ==
  /\ pc = "idle"
  /\ IsNotification(a) => Len(order) < MaxSchedule
  /\ pre' = Entry(0)
  /\ last' = "schedule"
  /\ ret' = NoRet
  /\ arg' = a
  /\ notifications' = Append(notifications, a.ref)
  /\ IF ~IsNotification(a)
       THEN /\ err' = "TypeError"
            /\ UNCHANGED order
       ELSE /\ err' = "none"
            /\ order' = Append(order, a.ref)
  /\ UNCHANGED <<objs, cerr, sent_notifications, clock, pc, now, snapshot,
                 idx, sent_count, calls>>
  /\ UNCHANGED funVars

\* Scheduler.schedule(notification)
schedule(a) ==
  /\ pc = "idle"
  /\ IsNotification(a) => Len(order) < MaxSchedule
  /\ pre' = Entry(0)
  /\ last' = "schedule"
  /\ ret' = NoRet
  /\ arg' = a
  /\ IF ~IsNotification(a)
       THEN /\ err' = "TypeError"
            /\ UNCHANGED <<notifications, order>>
       ELSE /\ err' = "none"
            /\ notifications' = Append(notifications, a.ref)
            /\ order' = Append(order, a.ref)
  /\ UNCHANGED <<objs, cerr, sent_notifications, clock, pc, now, snapshot,
                 idx, sent_count, calls>>
  /\ UNCHANGED funVars

\* list.remove(x): drops the first element equal to x
RECURSIVE Remove(_, _)
Remove(s, x) ==
  IF s = <<>> THEN <<>>
  ELSE IF Head(s) = x THEN Tail(s)
  ELSE <<Head(s)>> \o Remove(Tail(s), x)

\* variant: the comparison is strict
IsDue_strict(n, t) == n.scheduled_time < t

\* variant: the due test is missing
IsDue_all(n, t) == TRUE

\* variant: the clock is read again for every comparison
IsDue_reread(n, t) == n.scheduled_time <= clock

\* notification.scheduled_time <= now
IsDue(n, t) == n.scheduled_time <= t

\* run_pending, lines 130-133: now = datetime.now(); sent_count = 0; the loop
\* starts over a copy of the list
run_pending_begin ==
  /\ pc = "idle"
  /\ pre' = Entry(clock)
  /\ last' = "run_pending"
  /\ arg' = NoArg
  /\ now' = clock
  /\ sent_count' = 0
  /\ snapshot' = notifications
  /\ idx' = 1
  /\ pc' = "scan"
  /\ ret' = NoRet
  /\ err' = "none"
  /\ UNCHANGED <<objs, cerr, notifications, sent_notifications, clock, calls,
                 order>>
  /\ UNCHANGED funVars

\* variant: the delivered notification is inserted at the front of the sent list
deliver_front(r) ==
  /\ calls' = Append(calls, <<objs[r].user_id, objs[r].message>>)
  /\ objs' = [objs EXCEPT ![r].status = "sent"]
  /\ notifications' = Remove(notifications, r)
  /\ sent_notifications' = <<r>> \o sent_notifications
  /\ sent_count' = sent_count + 1

\* variant: the counter is not incremented
deliver_nocount(r) ==
  /\ calls' = Append(calls, <<objs[r].user_id, objs[r].message>>)
  /\ objs' = [objs EXCEPT ![r].status = "sent"]
  /\ notifications' = Remove(notifications, r)
  /\ sent_notifications' = Append(sent_notifications, r)
  /\ sent_count' = sent_count

\* variant: the delivered notification stays in the pending list
deliver_noremove(r) ==
  /\ calls' = Append(calls, <<objs[r].user_id, objs[r].message>>)
  /\ objs' = [objs EXCEPT ![r].status = "sent"]
  /\ notifications' = notifications
  /\ sent_notifications' = Append(sent_notifications, r)
  /\ sent_count' = sent_count + 1

\* lines 135-139: the body of the loop for a due notification r that
\* send_notification accepts
deliver(r) ==
  /\ calls' = Append(calls, <<objs[r].user_id, objs[r].message>>)
  /\ objs' = [objs EXCEPT ![r].status = "sent"]
  /\ notifications' = Remove(notifications, r)
  /\ sent_notifications' = Append(sent_notifications, r)
  /\ sent_count' = sent_count + 1

\* one iteration of the loop, lines 133-139
run_pending_step ==
  /\ pc = "scan"
  /\ idx <= Len(snapshot)
  /\ LET r == snapshot[idx]
         n == objs[r]
     IN IF ~IsDue(n, now)
          THEN /\ idx' = idx + 1
               /\ UNCHANGED <<objs, notifications, sent_notifications,
                              sent_count, calls, pc, err, snapshot, now>>
          ELSE IF send_notification_raises(n.user_id, n.message)
            THEN \* the ValueError leaves run_pending
                 /\ err' = "ValueError"
                 /\ pc' = "idle"
                 /\ snapshot' = <<>>
                 /\ idx' = 0
                 /\ now' = 0
                 /\ UNCHANGED <<objs, notifications, sent_notifications,
                                sent_count, calls>>
            ELSE /\ deliver(r)
                 /\ idx' = idx + 1
                 /\ UNCHANGED <<pc, err, snapshot, now>>
  /\ UNCHANGED <<cerr, clock, ret, last, arg, pre, order>>
  /\ UNCHANGED funVars

\* line 141: return sent_count
run_pending_return ==
  /\ pc = "scan"
  /\ idx > Len(snapshot)
  /\ ret' = sent_count
  /\ pc' = "idle"
  /\ snapshot' = <<>>
  /\ idx' = 0
  /\ now' = 0
  /\ sent_count' = 0
  /\ UNCHANGED <<objs, cerr, notifications, sent_notifications, clock, err,
                 calls, last, arg, pre, order>>
  /\ UNCHANGED funVars

\* the wall clock advances, also while a scan is running
Tick ==
  /\ clock < MaxClock
  /\ clock' = clock + 1
  /\ UNCHANGED <<objs, cerr, schedVars>>
  /\ UNCHANGED funVars

Construct ==
  \E u \in UserIdInputs, m \in MessageInputs, t \in TimeInputs,
     p \in PriorityInputs : Notification(u, m, t, p)

Schedule ==
  \E a \in {NotificationArg(r) : r \in 1..Len(objs)} \cup OtherArgs :
    schedule(a)

Next ==
  \/ Construct
  \/ Schedule
  \/ run_pending_begin
  \/ run_pending_step
  \/ run_pending_return
  \/ Tick

Spec == Init /\ [][Next]_vars

\* ---- the Notification constructor on its own ------------------------------
\* the caller leaves the priority argument out
Absent == "<absent>"
CtorPriorityInputs ==
  {Absent, "high", "HIGH", "Normal", "normal", "Low", "urgent", ""}

\* line 33: priority: str = 'normal'
DefaultPriority(p) == IF p = Absent THEN "normal" ELSE p

\* Notification(user_id, message, scheduled_time[, priority]) and its outcome
CtorCall(user_id, message, t, p) ==
  /\ fin' = [op |-> "Notification", user_id |-> user_id, message |-> message,
             scheduled_time |-> t, priority |-> p]
  /\ fout' =
       LET q == DefaultPriority(p)
           e == NotificationError(user_id, message, t, q)
       IN [op |-> "Notification",
           error |-> e,
           raised |-> NotificationRaisedAt(user_id, message, t, q),
           obj |-> IF e = "ok" THEN NewNotification(user_id, message, t, q)
                   ELSE <<>>]
  /\ UNCHANGED <<objs, cerr, clock, schedVars>>

NextCtor ==
  \E u \in UserIdInputs \cup {PyNone}, m \in MessageInputs \cup {PyNone},
     t \in TimeInputs,
     p \in CtorPriorityInputs : CtorCall(u, m, t, p)

SpecCtor == Init /\ [][NextCtor]_vars

\* the driver of the liveness check: it constructs valid notifications only
\* and passes only notifications to schedule
ConstructValid ==
  \E u \in {PyStr("u1")}, m \in {PyStr("hello")}, t \in 0..MaxTime,
     p \in {"Normal"} : Notification(u, m, t, p)

ScheduleValid ==
  \E a \in {NotificationArg(r) : r \in 1..Len(objs)} : schedule(a)

NextLive ==
  \/ ConstructValid
  \/ ScheduleValid
  \/ run_pending_begin
  \/ run_pending_step
  \/ run_pending_return
  \/ Tick

\* the external driver keeps calling run_pending, and a call that has started
\* runs to its end
Fairness ==
  /\ WF_vars(run_pending_begin)
  /\ WF_vars(run_pending_step)
  /\ WF_vars(run_pending_return)

SpecLive == Init /\ [][NextLive]_vars /\ Fairness

\* ---- Notification.parse_datetime on text -----------------------------------
\* A text is a sequence of one-character strings; a datetime is a record of
\* its fields.  datetime.strptime is modelled as the standard library has it:
\* the format becomes a regular expression, directive by directive, that must
\* match a prefix of the text (alternatives in order, with backtracking) and
\* the match must then cover the whole text; the fields must form a date.
Digits == <<"0", "1", "2", "3", "4", "5", "6", "7", "8", "9">>
IsDigit(c) == \E i \in 1..10 : Digits[i] = c
DigitVal(c) == (CHOOSE i \in 1..10 : Digits[i] = c) - 1
IsSpace(c) == c \in {" ", "\t"}

At(text, i) == IF i \in 1..Len(text) THEN text[i] ELSE ""

\* str.strip()
RECURSIVE LStrip(_)
LStrip(text) ==
  IF text # <<>> /\ IsSpace(Head(text)) THEN LStrip(Tail(text)) ELSE text
RECURSIVE RStrip(_)
RStrip(text) ==
  IF text # <<>> /\ IsSpace(text[Len(text)])
    THEN RStrip(SubSeq(text, 1, Len(text) - 1))
    ELSE text
Strip(text) == RStrip(LStrip(text))

\* variant: the last format is month/day/year
formats_us ==
  << <<"%Y", "-", "%m", "-", "%d", " ", "%H", ":", "%M", ":", "%S">>,
     <<"%Y", "-", "%m", "-", "%d", " ", "%H", ":", "%M">>,
     <<"%Y", "-", "%m", "-", "%d", "T", "%H", ":", "%M", ":", "%S">>,
     <<"%Y", "-", "%m", "-", "%d", "T", "%H", ":", "%M">>,
     <<"%d", ".", "%m", ".", "%Y", " ", "%H", ":", "%M">>,
     <<"%m", "/", "%d", "/", "%Y", " ", "%H", ":", "%M">> >>

\* lines 62-69
formats ==
  << <<"%Y", "-", "%m", "-", "%d", " ", "%H", ":", "%M", ":", "%S">>,
     <<"%Y", "-", "%m", "-", "%d", " ", "%H", ":", "%M">>,
     <<"%Y", "-", "%m", "-", "%d", "T", "%H", ":", "%M", ":", "%S">>,
     <<"%Y", "-", "%m", "-", "%d", "T", "%H", ":", "%M">>,
     <<"%d", ".", "%m", ".", "%Y", " ", "%H", ":", "%M">>,
     <<"%d", "/", "%m", "/", "%Y", " ", "%H", ":", "%M">> >>

IsDirective(tok) == tok \in {"%Y", "%m", "%d", "%H", "%M", "%S"}

\* the two-digit alternatives of a directive accept the value v
TwoDigitOk(tok, v, c1) ==
  CASE tok = "%m" -> (v >= 10 /\ v <= 12) \/ (c1 = "0" /\ v >= 1)
    [] tok = "%d" -> (v >= 10 /\ v <= 31) \/ (c1 = "0" /\ v >= 1)
    [] tok = "%H" -> v <= 23
    [] tok = "%M" -> v <= 59
    [] tok = "%S" -> v <= 61
    [] OTHER -> FALSE

\* the one-digit alternative of a directive accepts the digit value v
OneDigitOk(tok, v) ==
  CASE tok \in {"%m", "%d"} -> v >= 1
    [] tok \in {"%H", "%M", "%S"} -> TRUE
    [] OTHER -> FALSE

\* length of the run of whitespace of text that starts at pos
RECURSIVE SpaceRun(_, _)
SpaceRun(text, pos) ==
  IF IsSpace(At(text, pos)) THEN 1 + SpaceRun(text, pos + 1) ELSE 0

\* str.lower() on a character of a format
LowerChar(c) == IF c = "T" THEN "t" ELSE c

\* the ways the token tok can match text at pos, in the order the regular
\* expression tries them: each is <<length, value>>
Alternatives(tok, text, pos) ==
  LET c1 == At(text, pos)
      c2 == At(text, pos + 1)
      c3 == At(text, pos + 2)
      c4 == At(text, pos + 3)
  IN
  IF tok = "%Y" THEN
    IF IsDigit(c1) /\ IsDigit(c2) /\ IsDigit(c3) /\ IsDigit(c4)
      THEN << <<4, 1000 * DigitVal(c1) + 100 * DigitVal(c2)
                   + 10 * DigitVal(c3) + DigitVal(c4)>> >>
      ELSE <<>>
  ELSE IF IsDirective(tok) THEN
    (IF IsDigit(c1) /\ IsDigit(c2)
          /\ TwoDigitOk(tok, 10 * DigitVal(c1) + DigitVal(c2), c1)
       THEN << <<2, 10 * DigitVal(c1) + DigitVal(c2)>> >> ELSE <<>>)
    \o (IF IsDigit(c1) /\ OneDigitOk(tok, DigitVal(c1))
          THEN << <<1, DigitVal(c1)>> >> ELSE <<>>)
    \o (IF tok = "%d" /\ c1 = " " /\ IsDigit(c2) /\ DigitVal(c2) >= 1
          THEN << <<2, DigitVal(c2)>> >> ELSE <<>>)
  ELSE IF tok = " " THEN
    \* \s+, longest first
    [i \in 1..SpaceRun(text, pos) |-> <<SpaceRun(text, pos) + 1 - i, 0>>]
  ELSE
    \* a literal character, matched without regard to case
    IF c1 # "" /\ LowerChar(c1) = LowerChar(tok) THEN << <<1, 0>> >> ELSE <<>>

NoMatch == [ok |-> FALSE]

\* match the tokens k.. of fmt against text from pos on; acc holds the fields
\* found so far
RECURSIVE Match(_, _, _, _, _)
RECURSIVE TryAlternatives(_, _, _, _, _, _, _)
Match(fmt, k, text, pos, acc) ==
  IF k > Len(fmt) THEN [ok |-> TRUE, end |-> pos, fields |-> acc]
  ELSE TryAlternatives(fmt, k, text, pos, acc,
                       Alternatives(fmt[k], text, pos), 1)
TryAlternatives(fmt, k, text, pos, acc, alts, i) ==
  IF i > Len(alts) THEN NoMatch
  ELSE LET a == alts[i]
           acc2 == IF IsDirective(fmt[k])
                     THEN [acc EXCEPT ![fmt[k]] = a[2]] ELSE acc
           m == Match(fmt, k + 1, text, pos + a[1], acc2)
       IN IF m.ok THEN m
          ELSE TryAlternatives(fmt, k, text, pos, acc, alts, i + 1)

IsLeap(y) == (y % 4 = 0 /\ y % 100 # 0) \/ y % 400 = 0
DaysInMonth(y, m) ==
  IF m = 2 THEN (IF IsLeap(y) THEN 29 ELSE 28)
  ELSE IF m \in {4, 6, 9, 11} THEN 30 ELSE 31

ParseFailed == [ok |-> FALSE, error |-> "ValueError"]

\* datetime.strptime(text, fmt): ParseFailed stands for its ValueError
strptime(text, fmt) ==
  LET m == Match(fmt, 1, text, 1,
                 [tok \in {"%Y", "%m", "%d", "%H", "%M", "%S"} |->
                    IF tok = "%S" THEN 0 ELSE -1])
  IN IF ~m.ok THEN ParseFailed
     ELSE IF m.end # Len(text) + 1 THEN ParseFailed
     ELSE LET f == m.fields IN
       IF \/ f["%Y"] < 1
          \/ f["%d"] > DaysInMonth(f["%Y"], f["%m"])
          \/ f["%S"] > 59
         THEN ParseFailed
         ELSE [ok |-> TRUE,
               value |-> [year |-> f["%Y"], month |-> f["%m"],
                          day |-> f["%d"], hour |-> f["%H"],
                          minute |-> f["%M"], second |-> f["%S"]]]

\* lines 71-77: the first format that parses the text gives the result
RECURSIVE TryFormats(_, _)
TryFormats(text, i) ==
  IF i > Len(formats) THEN ParseFailed
  ELSE IF strptime(text, formats[i]).ok THEN strptime(text, formats[i])
  ELSE TryFormats(text, i + 1)

\* Notification.parse_datetime(datetime_str)
parse_datetime(text) == TryFormats(Strip(text), 1)

\* -- inputs: an instant written in one of the six layouts ---------------------
Pad2(n) == <<Digits[(n \div 10) + 1], Digits[(n % 10) + 1]>>
Pad4(n) == Pad2(n \div 100) \o Pad2(n % 100)

\* the instant d written in the layout f of the list in lines 63-68
Written(d, f) ==
  LET ymd(sep) == Pad4(d.year) \o <<sep>> \o Pad2(d.month) \o <<sep>>
                    \o Pad2(d.day)
      dmy(sep) == Pad2(d.day) \o <<sep>> \o Pad2(d.month) \o <<sep>>
                    \o Pad4(d.year)
      hm == Pad2(d.hour) \o <<":">> \o Pad2(d.minute)
      hms == hm \o <<":">> \o Pad2(d.second)
  IN CASE f = 1 -> ymd("-") \o <<" ">> \o hms
       [] f = 2 -> ymd("-") \o <<" ">> \o hm
       [] f = 3 -> ymd("-") \o <<"T">> \o hms
       [] f = 4 -> ymd("-") \o <<"T">> \o hm
       [] f = 5 -> dmy(".") \o <<" ">> \o hm
       [] f = 6 -> dmy("/") \o <<" ">> \o hm

Instants ==
  [year : {2024, 2025}, month : {1, 2, 10, 12}, day : {1, 9, 26, 29, 30},
   hour : {0, 10, 23}, minute : {0, 5, 59}, second : {0}]
Paddings == {<<>>, <<" ">>, <<"\t", " ">>}

\* texts in none of the layouts, or in a layout with shorter fields
OtherTexts ==
  { <<"n", "o", "t", "-", "a", "-", "d", "a", "t", "e">>,
    <<>>,
    <<"2", "0", "2", "5", "-", "2", "-", "9", " ", "1", ":", "5">>,
    <<"2", "0", "2", "5", "-", "1", "0", "-", "2", "6", " ", " ",
      "1", "0", ":", "0", "0">>,
    <<"2", "0", "2", "5", "-", "1", "0", "-", "2", "6", "t",
      "1", "0", ":", "0", "0">>,
    <<"2", "0", "2", "5", "-", "1", "0", "-", "2", "6", " ",
      "1", "0", ":", "0", "0", ":", "6", "0">>,
    <<"2", "0", "2", "5", "-", "1", "0", "-", "2", "6", " ",
      "1", "0", ":", "0", "0", ":", "1", "2", "3">>,
    <<"0", "0", "0", "0", "-", "0", "1", "-", "0", "1", " ",
      "0", "0", ":", "0", "0">>,
    <<"2", "6", ".", "1", "0", ".", "2", "0", "2", "5">> }

NoInstant ==
  [year |-> 0, month |-> 0, day |-> 0, hour |-> 0, minute |-> 0, second |-> 0]

\* the calls of parse_datetime that are examined: an instant written in all
\* six layouts with the whitespace pad before and after, or another text
ParseInputs ==
  {[op |-> "parse_datetime", kind |-> "written", instant |-> d, pad |-> pad,
    text |-> <<>>] : d \in Instants, pad \in Paddings}
  \cup
  {[op |-> "parse_datetime", kind |-> "other", instant |-> NoInstant,
    pad |-> <<>>, text |-> text] : text \in OtherTexts}

InitParse ==
  /\ SchedInit
  /\ fin \in ParseInputs
  /\ fout = NoCall

\* parse_datetime applied to the instant written in each layout
ParseWritten ==
  /\ fin.kind = "written"
  /\ fout.op = "none"
  /\ fout' = [op |-> "parse_datetime",
              results |-> [f \in 1..6 |->
                 parse_datetime(fin.pad \o Written(fin.instant, f)
                                  \o fin.pad)]]
  /\ UNCHANGED <<objs, cerr, clock, schedVars, fin>>

\* parse_datetime applied to another text
ParseOther ==
  /\ fin.kind = "other"
  /\ fout.op = "none"
  /\ fout' = [op |-> "parse_datetime",
              results |-> <<parse_datetime(fin.text)>>]
  /\ UNCHANGED <<objs, cerr, clock, schedVars, fin>>

NextParse == ParseWritten \/ ParseOther

SpecParse == InitParse /\ [][NextParse]_vars

\* ---- Notification.to_dict ---------------------------------------------------
\* Here a message is a sequence of characters and the two datetimes are
\* records of their fields, microsecond included.
PreviewLen == 30

Pad6(n) == Pad2(n \div 10000) \o Pad4(n % 10000)

\* datetime.isoformat()
isoformat(d) ==
  Pad4(d.year) \o <<"-">> \o Pad2(d.month) \o <<"-">> \o Pad2(d.day)
    \o <<"T">> \o Pad2(d.hour) \o <<":">> \o Pad2(d.minute) \o <<":">>
    \o Pad2(d.second)
    \o (IF d.microsecond # 0 THEN <<".">> \o Pad6(d.microsecond) ELSE <<>>)

\* variant: a message of exactly PreviewLen characters is cut as well
to_dict_offbyone(n) ==
  [user_id |-> n.user_id,
   message_preview |->
     IF Len(n.message) >= PreviewLen
       THEN SubSeq(n.message, 1, PreviewLen) \o <<".", ".", ".">>
       ELSE n.message,
   scheduled_time |-> isoformat(n.scheduled_time),
   created_at |-> isoformat(n.created_at),
   status |-> n.status]

\* Notification.to_dict(self)
to_dict(n) ==
  [user_id |-> n.user_id,
   message_preview |->
     IF Len(n.message) > PreviewLen
       THEN SubSeq(n.message, 1, PreviewLen) \o <<".", ".", ".">>
       ELSE n.message,
   scheduled_time |-> isoformat(n.scheduled_time),
   created_at |-> isoformat(n.created_at),
   status |-> n.status]

\* messages of every length up to MaxMsgLen, of one repeated character or of
\* the digits in turn
Message(len, kind) ==
  [i \in 1..len |-> IF kind = 1 THEN "a" ELSE Digits[(i % 10) + 1]]

DictInputs ==
  {[op |-> "to_dict",
    self |-> [user_id |-> PyStr("u1"),
              message |-> Message(len, kind),
              scheduled_time |->
                [year |-> 2025, month |-> 10, day |-> 26, hour |-> 10,
                 minute |-> 0, second |-> 0, microsecond |-> 0],
              created_at |->
                [year |-> 2026, month |-> 2, day |-> 9, hour |-> 12,
                 minute |-> 30, second |-> 5, microsecond |-> us],
              status |-> st,
              priority |-> "normal"]] :
     len \in 1..MaxMsgLen, kind \in {1, 2}, us \in {0, 1234},
     st \in {"pending", "sent"}}

InitDict ==
  /\ SchedInit
  /\ fin \in DictInputs
  /\ fout = NoCall

\* d = fin.self.to_dict(); fout holds d and the object after the call
ToDict ==
  /\ fin.op = "to_dict"
  /\ fout.op = "none"
  /\ fout' = [op |-> "to_dict", result |-> to_dict(fin.self),
              self |-> fin.self]
  /\ UNCHANGED <<objs, cerr, clock, schedVars, fin>>

NextDict == ToDict

SpecDict == InitDict /\ [][NextDict]_vars

\* ---- properties ----------------------------------------------------------
Range(s) == {s[i] : i \in DOMAIN s}
Suffix(s, k) == SubSeq(s, k + 1, Len(s))
Count(s, x) == Cardinality({i \in DOMAIN s : s[i] = x})

\* s can be obtained from t by deleting entries
RECURSIVE IsSubseq(_, _)
IsSubseq(s, t) ==
  IF s = <<>> THEN TRUE
  ELSE IF t = <<>> THEN FALSE
  ELSE IF Head(s) = Head(t) THEN IsSubseq(Tail(s), Tail(t))
  ELSE IsSubseq(s, Tail(t))

\* the last Scheduler call was a run_pending that has returned
Returned == pc = "idle" /\ last = "run_pending" /\ err = "none"
\* the last Scheduler call was a schedule of a Notification
Scheduled == pc = "idle" /\ last = "schedule" /\ IsNotification(arg)
\* no object that existed at the entry of the last call has changed
SameObjs == \A r \in DOMAIN pre.objs : objs[r] = pre.objs[r]
\* the entries of the pending list at the entry of the last call that were due
\* at the instant t, in list order
DueEntries(t) ==
  SelectSeq(pre.notifications, LAMBDA r : objs[r].scheduled_time <= t)
NotDueEntries(t) ==
  SelectSeq(pre.notifications, LAMBDA r : objs[r].scheduled_time > t)
\* what run_pending appended to the sent list, what it passed to the callback
NewSent == Suffix(sent_notifications, Len(pre.sent))
NewCalls == Suffix(calls, pre.ncalls)

\* C1 (as claimed): between calls, every Notification that has been scheduled
\* is in exactly one of the pending list and the sent list.
C1_ExactlyOne ==
  pc = "idle" =>
    \A r \in Range(order) :
      (r \in Range(notifications)) # (r \in Range(sent_notifications))

\* C2 (as claimed): no Notification is delivered more than once, that is, no
\* Notification occurs twice in the sent list, which has one entry per
\* invocation of the delivery callback.
C2_AtMostOnce ==
  /\ Len(calls) = Len(sent_notifications)
  /\ \A r \in DOMAIN objs : Count(sent_notifications, r) <= 1

\* C3: when run_pending returns, it has delivered exactly the entries that
\* were pending at its start with scheduled_time <= now, in pending order:
\* they are the new tail of the sent list and the callback was invoked for
\* them in that order; the earlier part of the sent list is as it was.
C3_DeliversDueInOrder ==
  Returned =>
    /\ NewSent = DueEntries(pre.now)
    /\ SubSeq(sent_notifications, 1, Len(pre.sent)) = pre.sent
    /\ NewCalls = [i \in 1..Len(DueEntries(pre.now)) |->
                     <<objs[DueEntries(pre.now)[i]].user_id,
                       objs[DueEntries(pre.now)[i]].message>>]

\* a run_pending that delivered two different notifications, with different
\* user ids, the later scheduled_time first
C3_Witness ==
  /\ Returned
  /\ ret = 2
  /\ NewSent[1] # NewSent[2]
  /\ objs[NewSent[1]].user_id # objs[NewSent[2]].user_id
  /\ objs[NewSent[1]].scheduled_time > objs[NewSent[2]].scheduled_time

\* C4: when run_pending returns, the pending list consists of exactly the
\* entries that were pending and not due at its start, in their order, and
\* each of them is unchanged and has status 'pending'.
C4_NotDueUntouched ==
  Returned =>
    /\ notifications = NotDueEntries(pre.now)
    /\ \A r \in Range(notifications) :
         objs[r].status = "pending" /\ objs[r] = pre.objs[r]

\* a run_pending that delivered an entry lying before an entry it kept
C4_Witness ==
  /\ Returned
  /\ ret >= 1
  /\ notifications # <<>>
  /\ objs[pre.notifications[1]].scheduled_time <= pre.now

\* C5: the value run_pending returns is the number of callback invocations it
\* made, the number of entries it removed from pending and the number it
\* appended to sent; the i-th invocation got the user_id and message of the
\* i-th appended notification; on an empty pending list it returns 0 and
\* changes nothing.
C5_ReturnCount ==
  Returned =>
    /\ ret = Len(calls) - pre.ncalls
    /\ ret = Len(pre.notifications) - Len(notifications)
    /\ ret = Len(sent_notifications) - Len(pre.sent)
    /\ \A i \in 1..ret :
         NewCalls[i] = <<objs[NewSent[i]].user_id, objs[NewSent[i]].message>>
    /\ pre.notifications = <<>> =>
         /\ ret = 0
         /\ notifications = <<>>
         /\ sent_notifications = pre.sent
         /\ SameObjs

\* a run_pending that returned 1 after one callback invocation
C5_Witness ==
  /\ Returned
  /\ ret = 1
  /\ Len(pre.notifications) >= 2
  /\ NewCalls = <<<<PyStr("u2"), PyStr("hello")>>>>
\* C6: a run_pending that starts right after another run_pending returned,
\* with no schedule call in between and at the same instant, returns 0,
\* invokes no callback and leaves pending, sent and every status unchanged.
C6_SecondCallIdle ==
  (Returned /\ pre.last = "run_pending" /\ pre.now = pre.prevnow) =>
    /\ ret = 0
    /\ Len(calls) = pre.ncalls
    /\ notifications = pre.notifications
    /\ sent_notifications = pre.sent
    /\ SameObjs

\* the second of two successive run_pending calls, the first of which
\* delivered something and left something pending
C6_Witness ==
  /\ Returned
  /\ pre.last = "run_pending"
  /\ pre.now = pre.prevnow
  /\ pre.ret >= 1
  /\ notifications # <<>>

\* C7: when run_pending returns, every entry that was pending at its start
\* with scheduled_time equal to now has left pending and is among the newly
\* sent, and every entry with scheduled_time greater than now is still
\* pending and not among the newly sent.
C7_InclusiveBoundary ==
  Returned =>
    \A i \in DOMAIN pre.notifications :
      LET r == pre.notifications[i] IN
        /\ objs[r].scheduled_time = pre.now =>
             r \notin Range(notifications) /\ r \in Range(NewSent)
        /\ objs[r].scheduled_time > pre.now =>
             r \in Range(notifications) /\ r \notin Range(NewSent)

\* a scan over an entry exactly at the boundary and an entry after it
C7_Witness ==
  /\ Returned
  /\ \E i, j \in DOMAIN pre.notifications :
       /\ objs[pre.notifications[i]].scheduled_time = pre.now
       /\ objs[pre.notifications[j]].scheduled_time > pre.now

\* C8: after schedule(n) with a Notification n, pending is the pending list
\* of before with n appended; sent, every notification and the callback log
\* are unchanged and no error is raised; and the pending list is always in
\* schedule-call order (it is the sequence of scheduled arguments with some
\* entries deleted).
C8_ScheduleAppends ==
  /\ IsSubseq(notifications, order)
  /\ Scheduled =>
       /\ notifications = Append(pre.notifications, arg.ref)
       /\ sent_notifications = pre.sent
       /\ SameObjs
       /\ Len(calls) = pre.ncalls
       /\ err = "none"

\* a schedule call of a second notification made when pending was non-empty
C8_Witness ==
  /\ Scheduled
  /\ pre.notifications # <<>>
  /\ arg.ref # pre.notifications[1]

\* C9 (as claimed): delivering one entry changes the status of no entry that
\* stays in the pending list.
C9_EntriesIndependent ==
  [][\A j \in DOMAIN notifications' :
       LET r == notifications'[j] IN
         r \in DOMAIN objs => objs'[r].status = objs[r].status]_vars

\* C10: schedule called with a value that is not a Notification raises
\* TypeError and leaves pending, sent, every notification and the callback
\* log as they were.
C10_ScheduleRejects ==
  (pc = "idle" /\ last = "schedule" /\ ~IsNotification(arg)) =>
    /\ err = "TypeError"
    /\ notifications = pre.notifications
    /\ sent_notifications = pre.sent
    /\ SameObjs
    /\ Len(calls) = pre.ncalls

\* a rejected schedule call made when pending and sent were both non-empty
C10_Witness ==
  /\ pc = "idle"
  /\ last = "schedule"
  /\ ~IsNotification(arg)
  /\ err = "TypeError"
  /\ notifications # <<>>
  /\ sent_notifications # <<>>
\* s is a prefix of t
IsPrefix(s, t) == Len(s) <= Len(t) /\ SubSeq(t, 1, Len(s)) = s

\* C15: every due comparison of one run_pending call uses the instant read at
\* its start: during the scan now stays that instant and the entries passed
\* so far were delivered exactly if their scheduled_time is <= it, whatever
\* the clock shows meanwhile; so, at the return, with a delivered entry every
\* entry of the starting pending list with an earlier or equal scheduled_time is
\* delivered too.
C15_SingleNow ==
  /\ pc = "scan" =>
       /\ now = pre.now
       /\ NewSent = SelectSeq(SubSeq(snapshot, 1, idx - 1),
                              LAMBDA r : objs[r].scheduled_time <= pre.now)
  /\ Returned =>
       \A i, j \in DOMAIN pre.notifications :
         (/\ pre.notifications[i] \in Range(NewSent)
          /\ objs[pre.notifications[j]].scheduled_time
               <= objs[pre.notifications[i]].scheduled_time)
           => pre.notifications[j] \in Range(NewSent)

\* the end of a scan during which the clock has passed the scheduled_time of
\* an entry that was passed over, after another entry was delivered
C15_Witness ==
  /\ pc = "scan"
  /\ idx > Len(snapshot)
  /\ clock > now
  /\ sent_count >= 1
  /\ \E i \in DOMAIN snapshot :
       /\ objs[snapshot[i]].scheduled_time > now
       /\ objs[snapshot[i]].scheduled_time <= clock
       /\ snapshot[i] \in Range(notifications)

\* C16: in every step the sent list of before is a prefix of the sent list of
\* after: entries are only appended, never removed or reordered.
C16_SentAppendOnly ==
  [][IsPrefix(sent_notifications, sent_notifications')]_vars

\* a schedule call made after a delivery
C16_Witness ==
  /\ Scheduled
  /\ Len(sent_notifications) >= 1
  /\ pre.sent = sent_notifications
  /\ Len(notifications) >= 1

\* C17: under the fairness of the driver, a notification that is pending when
\* the clock has reached its scheduled_time is eventually in the sent list and
\* out of the pending list.
C17_EventuallyDelivered ==
  \A r \in 1..MaxObjs :
    (r \in Range(notifications) /\ objs[r].scheduled_time <= clock)
      ~> (r \in Range(sent_notifications) /\ r \notin Range(notifications))

\* a notification that had to wait for the clock and has been delivered
C17_Witness ==
  /\ pc = "idle"
  /\ \E r \in Range(sent_notifications) :
       /\ objs[r].scheduled_time >= 1
       /\ r \notin Range(notifications)
       /\ objs[r].status = "sent"

\* C18: the pending and the sent list together hold as many entries as there
\* were successful schedule calls, and the callback was invoked once per entry
\* of the sent list.
C18_Conservation ==
  /\ Len(notifications) + Len(sent_notifications) = Len(order)
  /\ Len(calls) = Len(sent_notifications)

\* two successful schedule calls, one entry delivered, one still pending
C18_Witness ==
  /\ Len(order) >= 2
  /\ Len(notifications) >= 1
  /\ Len(sent_notifications) >= 1
  /\ Len(calls) >= 1

\* C19 (as claimed): between calls, every entry of the pending list has status
\* 'pending' and every entry of the sent list has status 'sent'.
C19_StatusMatchesList ==
  pc = "idle" =>
    /\ \A i \in DOMAIN notifications : objs[notifications[i]].status = "pending"
    /\ \A i \in DOMAIN sent_notifications :
         objs[sent_notifications[i]].status = "sent"

\* C20: send_notification accepts the user_id and message of every
\* Notification that was constructed, and no run_pending call ends with an
\* exception.
C20_DeliveryNeverRaises ==
  /\ \A r \in DOMAIN objs :
       ~send_notification_raises(objs[r].user_id, objs[r].message)
  /\ err # "ValueError"

\* a scan that delivered every entry of a pending list of two
C20_Witness ==
  /\ Returned
  /\ ret = 2
  /\ Len(pre.notifications) = 2
  /\ notifications = <<>>
\* the error kinds of the specification: ParseError is what parse_datetime
\* raises (line 77), ValidationError what validate_priority and validate raise
ErrorKind(line) ==
  CASE line = 77 -> "ParseError"
    [] line \in {51, 85, 87} -> "ValidationError"
    [] OTHER -> "none"

\* C11 (as claimed): constructing a Notification with an empty user_id or an
\* empty message fails with ValidationError, whatever the other arguments are.
C11_EmptyIsValidationError ==
  (fin.op = "Notification"
     /\ (fin.user_id = PyStr("") \/ fin.message = PyStr("")))
    => ErrorKind(fout.raised) = "ValidationError"

\* the priority a valid priority argument stands for
ExpectedPriority(p) ==
  CASE p \in {"high", "HIGH"} -> "high"
    [] p \in {"normal", "Normal", Absent} -> "normal"
    [] p \in {"low", "Low"} -> "low"

\* the arguments of the last constructor call are all valid
ValidCtorInputs ==
  /\ fin.op = "Notification"
  /\ fin.user_id \in {PyStr("u1"), PyStr("u2")}
  /\ fin.message = PyStr("hello")
  /\ fin.scheduled_time \in 0..MaxTime
  /\ fin.priority \in {Absent, "high", "HIGH", "Normal", "normal", "Low"}

\* C12: with valid arguments the constructor succeeds, the new Notification
\* has status 'pending' and its priority is the lowercase form of the given
\* one, 'normal' when none is given; the other fields are the arguments.
C12_ValidConstructs ==
  ValidCtorInputs =>
    /\ fout.raised = 0
    /\ fout.error = "ok"
    /\ fout.obj.status = "pending"
    /\ fout.obj.priority = ExpectedPriority(fin.priority)
    /\ fout.obj.priority \in {"high", "normal", "low"}
    /\ fout.obj.user_id = fin.user_id
    /\ fout.obj.message = fin.message
    /\ fout.obj.scheduled_time = fin.scheduled_time

\* a construction with an upper-case priority
C12_Witness ==
  /\ ValidCtorInputs
  /\ fin.priority = "HIGH"
  /\ fout.error = "ok"
  /\ fout.obj.priority = "high"
\* the instant d exists in the calendar
IsDate(d) == d.day <= DaysInMonth(d.year, d.month)

\* C13: one instant written in each of the six layouts, with or without
\* surrounding whitespace, parses to the same value in all six: the instant
\* itself when it is a date of the calendar, a failure in all six otherwise.
C13_FormatIndependent ==
  (fout.op = "parse_datetime" /\ fin.kind = "written") =>
    /\ \A f, g \in 1..6 : fout.results[f] = fout.results[g]
    /\ \A f \in 1..6 :
         IF IsDate(fin.instant)
           THEN fout.results[f].ok /\ fout.results[f].value = fin.instant
           ELSE ~fout.results[f].ok

\* an instant with day and month both below 13, padded, parsed in all layouts
C13_Witness ==
  /\ fout.op = "parse_datetime"
  /\ fin.kind = "written"
  /\ fin.pad # <<>>
  /\ fin.instant.day = 9
  /\ fin.instant.month = 10
  /\ \A f \in 1..6 : fout.results[f].ok /\ fout.results[f].value.day = 9

\* C14: the message_preview of the summary is the message itself when it has
\* at most 30 characters, and its first 30 characters followed by '...' when
\* it has more; the Notification is the same after the call.
C14_MessagePreview ==
  fout.op = "to_dict" =>
    LET msg == fin.self.message
        pv == fout.result.message_preview
    IN /\ Len(msg) <= 30 => pv = msg
       /\ Len(msg) > 30 =>
            /\ Len(pv) = 33
            /\ \A i \in 1..30 : pv[i] = msg[i]
            /\ \A i \in 31..33 : pv[i] = "."
       /\ fout.self = fin.self

\* the summary of a message of 31 characters that are not all the same
C14_Witness ==
  /\ fout.op = "to_dict"
  /\ Len(fin.self.message) = 31
  /\ fin.self.message[1] # fin.self.message[2]
  /\ Len(fout.result.message_preview) = 33

====
